---- MODULE Spec2Model ----
(***************************************************************************)
(* Network_SnifferX: a raw-socket capture loop that dissects each frame    *)
(* Ethernet -> IPv4 -> {ICMP, TCP, UDP}.  Byte strings are sequences of    *)
(* 0..255; Python's 0-based slices are written with Slice / SliceFrom.     *)
(***************************************************************************)
EXTENDS Integers, Sequences, FiniteSets, TLC

VARIABLES pc, raw_data, data, eth_proto, proto, calls, printed, dump,
          word, flags

vars == <<pc, raw_data, data, eth_proto, proto, calls, printed, dump,
          word, flags>>

mainVars == <<pc, raw_data, data, eth_proto, proto, calls, printed, dump>>
flagVars == <<word, flags>>

(* ---------------------------- bounds ---------------------------------- *)
\* bytes of application payload generated after a 20-byte transport header
MaxPayload == 4

(* ------------------------ Python primitives --------------------------- *)
\* data[a:b]
Slice(d, a, b) == SubSeq(d, a + 1, IF b < Len(d) THEN b ELSE Len(d))

\* data[a:]
SliceFrom(d, a) == SubSeq(d, a + 1, Len(d))

\* struct '!H' / '!L' at 0-based offset i of an already length-checked buffer
U16(d, i) == d[i + 1] * 256 + d[i + 2]
U32(d, i) == d[i + 1] * 16777216 + d[i + 2] * 65536 + d[i + 3] * 256 + d[i + 4]

\* x & (2^k) != 0
Bit(x, k) == (x \div (2 ^ k)) % 2

\* an exception leaving a decoder
Raise(e) == [ok |-> FALSE, error |-> e]

HexDigits == <<"0", "1", "2", "3", "4", "5", "6", "7",
               "8", "9", "A", "B", "C", "D", "E", "F">>

\* '{:02x}'.format(b) upper-cased, joined with ':' (the fields of the join)
get_mac_addr(bytes_addr) ==
    [i \in 1..Len(bytes_addr) |->
        <<HexDigits[(bytes_addr[i] \div 16) + 1], HexDigits[(bytes_addr[i] % 16) + 1]>>]

\* str(n) for an octet, as its decimal digits
DecStr(n) ==
    IF n >= 100 THEN <<n \div 100, (n \div 10) % 10, n % 10>>
    ELSE IF n >= 10 THEN <<n \div 10, n % 10>>
    ELSE <<n>>

\* '.'.join(map(str, addr)) (the fields of the join)
ipv4(addr) == [i \in 1..Len(addr) |-> DecStr(addr[i])]

\* socket.htons on a little-endian host (x86, ARM Linux): swap the two bytes
htons_identity(x) == x
htons(x) == (x % 256) * 256 + (x \div 256)

(* ----------------------------- decoders ------------------------------- *)
ethernet_frame_off13(d) ==
    IF Len(Slice(d, 0, 14)) # 14 THEN Raise("struct.error")
    ELSE [ok |-> TRUE,
          dest_mac |-> get_mac_addr(Slice(d, 0, 6)),
          src_mac |-> get_mac_addr(Slice(d, 6, 12)),
          proto |-> htons(U16(d, 12)),
          data |-> SliceFrom(d, 13)]
ethernet_frame(d) ==
    IF Len(Slice(d, 0, 14)) # 14 THEN Raise("struct.error")
    ELSE [ok |-> TRUE,
          dest_mac |-> get_mac_addr(Slice(d, 0, 6)),
          src_mac |-> get_mac_addr(Slice(d, 6, 12)),
          proto |-> htons(U16(d, 12)),
          data |-> SliceFrom(d, 14)]

ipv4_packet(d) ==
    IF Len(d) = 0 THEN Raise("IndexError")
    ELSE IF Len(Slice(d, 0, 20)) # 20 THEN Raise("struct.error")
    ELSE LET version_header_length == d[1]
             header_length == (version_header_length % 16) * 4
         IN [ok |-> TRUE,
             version |-> version_header_length \div 16,
             header_length |-> header_length,
             ttl |-> d[9],
             proto |-> d[10],
             src |-> ipv4(Slice(d, 12, 16)),
             target |-> ipv4(Slice(d, 16, 20)),
             data |-> SliceFrom(d, header_length)]

tcp_flags_shifted(orf) ==
    [URG |-> Bit(orf, 6), ACK |-> Bit(orf, 5), PSH |-> Bit(orf, 4),
     RST |-> Bit(orf, 3), SYN |-> Bit(orf, 2), FIN |-> Bit(orf, 1)]
tcp_flags(orf) ==
    [URG |-> Bit(orf, 5), ACK |-> Bit(orf, 4), PSH |-> Bit(orf, 3),
     RST |-> Bit(orf, 2), SYN |-> Bit(orf, 1), FIN |-> Bit(orf, 0)]

tcp_segment(d) ==
    IF Len(Slice(d, 0, 14)) # 14 THEN Raise("struct.error")
    ELSE LET offset_reserved_flags == U16(d, 12)
             offset == (offset_reserved_flags \div 4096) * 4
         IN [ok |-> TRUE,
             src_port |-> U16(d, 0),
             dest_port |-> U16(d, 2),
             sequence |-> U32(d, 4),
             acknowledgment |-> U32(d, 8),
             flags |-> tcp_flags(offset_reserved_flags),
             data |-> SliceFrom(d, offset)]

udp_segment(d) ==
    IF Len(Slice(d, 0, 8)) # 8 THEN Raise("struct.error")
    ELSE [ok |-> TRUE,
          src_port |-> U16(d, 0),
          dest_port |-> U16(d, 2),
          size |-> U16(d, 6),
          data |-> SliceFrom(d, 8)]

icmp_packet_pad(d) ==
    IF Len(d) < 3 THEN Raise("struct.error")
    ELSE [ok |-> TRUE,
          icmp_type |-> d[1],
          code |-> d[2],
          checksum |-> IF Len(d) = 3 THEN d[3] * 256 ELSE U16(d, 2),
          data |-> SliceFrom(d, 4)]
icmp_packet(d) ==
    IF Len(Slice(d, 0, 4)) # 4 THEN Raise("struct.error")
    ELSE [ok |-> TRUE,
          icmp_type |-> d[1],
          code |-> d[2],
          checksum |-> U16(d, 2),
          data |-> SliceFrom(d, 4)]

\* the if / elif chain of main on the IPv4 protocol number
Dispatch_swapped(p) ==
    IF p = 1 THEN "ICMP" ELSE IF p = 17 THEN "TCP" ELSE IF p = 6 THEN "UDP" ELSE "Other"
Dispatch(p) ==
    IF p = 1 THEN "ICMP" ELSE IF p = 6 THEN "TCP" ELSE IF p = 17 THEN "UDP" ELSE "Other"

(* ----------------------- frames on the wire --------------------------- *)
\* ether_type bytes 12-13: IPv4, ARP, and byte-swapped IPv4
EtherTypes == {<<8, 0>>, <<8, 6>>, <<0, 8>>}

\* version / header-length byte: IHL 5, 6 (options), 0, 4 (below minimum),
\* 15 (60 bytes, more than any generated frame carries)
VersionIHLs == {69, 70, 64, 68, 79}

\* IPv4 protocol byte: ICMP, TCP, UDP, GRE
Protocols == {1, 6, 17, 47}

\* bytes 4-5 of the transport header (the UDP length field)
LengthFields == {<<0, 0>>, <<0, 12>>}

\* bytes 12-13 of the transport header (TCP offset / flags word):
\* offset 5 SYN, offset 5 SYN+ACK, offset 0 all flags, offset 7 (28 bytes) FIN
OffsetFlagWords == {<<80, 2>>, <<80, 18>>, <<0, 63>>, <<112, 1>>}

EthHeader(et) == <<1, 2, 3, 4, 5, 6, 17, 18, 19, 20, 21, 22>> \o et

IpHeader(vhl, pr) ==
    <<vhl, 0, 0, 40, 0, 1, 0, 0, 64, pr, 0, 0, 10, 0, 0, 1, 10, 0, 0, 2>>

Body(lf, orf) ==
    [i \in 1..(20 + MaxPayload) |->
        IF i = 5 THEN lf[1] ELSE IF i = 6 THEN lf[2]
        ELSE IF i = 13 THEN orf[1] ELSE IF i = 14 THEN orf[2]
        ELSE 100 + i]

MaxFrameLen == 14 + 20 + 20 + MaxPayload

\* every prefix of every generated frame: truncation at each byte position
Frames ==
    { Slice(EthHeader(et) \o IpHeader(vhl, pr) \o Body(lf, orf), 0, n) :
        et \in EtherTypes, vhl \in VersionIHLs, pr \in Protocols,
        lf \in LengthFields, orf \in OffsetFlagWords, n \in 0..MaxFrameLen }

(* --------------------------- capture loop ----------------------------- *)
None == -1

Call(fn, arg, ret) == [fn |-> fn, arg |-> arg, ret |-> ret]

Init ==
    /\ pc = "recv"
    /\ raw_data = <<>>
    /\ data = <<>>
    /\ eth_proto = None
    /\ proto = None
    /\ calls = <<>>
    /\ printed = <<>>
    /\ dump = <<>>
    /\ word = 0
    /\ flags = tcp_flags(0)

\* line 64: conn.recvfrom(65535) hands over the next frame on the wire
Recv ==
    /\ pc = "recv"
    /\ \E f \in Frames : raw_data' = f
    /\ pc' = "ethernet"
    /\ UNCHANGED <<data, eth_proto, proto, calls, printed, dump>>
    /\ UNCHANGED flagVars

\* line 63: while True, back to the top of the loop.  The locals of the
\* finished iteration are dead (each is reassigned before it is read); they
\* and the per-frame records of calls and output are cleared here.
Loop ==
    /\ pc = "done"
    /\ pc' = "recv"
    /\ raw_data' = <<>>
    /\ data' = <<>>
    /\ eth_proto' = None
    /\ proto' = None
    /\ calls' = <<>>
    /\ printed' = <<>>
    /\ dump' = <<>>
    /\ UNCHANGED flagVars

\* lines 65-67
Ethernet ==
    /\ pc = "ethernet"
    /\ LET r == ethernet_frame(raw_data) IN
         /\ calls' = Append(calls, Call("ethernet_frame", raw_data, r))
         /\ IF r.ok
            THEN /\ data' = r.data
                 /\ eth_proto' = r.proto
                 /\ printed' = Append(printed, "Ethernet Frame")
                 /\ pc' = "gate"
            ELSE /\ pc' = "terminated"
                 /\ UNCHANGED <<data, eth_proto, printed>>
    /\ UNCHANGED <<raw_data, proto, dump>>
    /\ UNCHANGED flagVars

\* line 70 false: the iteration ends
NotIPv4 ==
    /\ pc = "gate"
    /\ eth_proto # 8
    /\ pc' = "done"
    /\ UNCHANGED <<raw_data, data, eth_proto, proto, calls, printed, dump>>
    /\ UNCHANGED flagVars

\* line 70 true, lines 71-74
IPv4 ==
    /\ pc = "gate"
    /\ eth_proto = 8
    /\ LET r == ipv4_packet(data) IN
         /\ calls' = Append(calls, Call("ipv4_packet", data, r))
         /\ IF r.ok
            THEN /\ data' = r.data
                 /\ proto' = r.proto
                 /\ printed' = Append(printed, "IPv4 Packet")
                 /\ pc' = "dispatch"
            ELSE /\ pc' = "terminated"
                 /\ UNCHANGED <<data, proto, printed>>
    /\ UNCHANGED <<raw_data, eth_proto, dump>>
    /\ UNCHANGED flagVars

\* a transport branch: decode, print the header, hex-dump the payload
Transport(fn, r, tag) ==
    /\ calls' = Append(calls, Call(fn, data, r))
    /\ IF r.ok
       THEN /\ data' = r.data
            /\ printed' = Append(printed, tag)
            /\ dump' = Append(dump, r.data)
            /\ pc' = "done"
       ELSE /\ pc' = "terminated"
            /\ UNCHANGED <<data, printed, dump>>
    /\ UNCHANGED <<raw_data, eth_proto, proto>>
    /\ UNCHANGED flagVars

\* lines 77-81
ICMP ==
    /\ pc = "dispatch"
    /\ Dispatch(proto) = "ICMP"
    /\ Transport("icmp_packet", icmp_packet(data), "ICMP Packet")

\* lines 83-89
TCP ==
    /\ pc = "dispatch"
    /\ Dispatch(proto) = "TCP"
    /\ Transport("tcp_segment", tcp_segment(data), "TCP Segment")

\* lines 91-95
UDP ==
    /\ pc = "dispatch"
    /\ Dispatch(proto) = "UDP"
    /\ Transport("udp_segment", udp_segment(data), "UDP Segment")

\* lines 97-99
Other ==
    /\ pc = "dispatch"
    /\ Dispatch(proto) = "Other"
    /\ printed' = Append(printed, "Other Protocol")
    /\ dump' = Append(dump, data)
    /\ pc' = "done"
    /\ UNCHANGED <<raw_data, data, eth_proto, proto, calls>>
    /\ UNCHANGED flagVars

Next == Recv \/ Loop \/ Ethernet \/ NotIPv4 \/ IPv4 \/ ICMP \/ TCP \/ UDP \/ Other

Spec == Init /\ [][Next]_vars

(* -------------------- TCP offset / flags word ------------------------- *)
\* width of the '!H' offset / flags word
WordBits == 16

\* a 14-byte TCP prefix carrying the word w in bytes 12-13
SegmentWith(w) == <<0, 80, 0, 81, 0, 0, 0, 1, 0, 0, 0, 2>> \o <<w \div 256, w % 256>>

\* w with bit k inverted
FlipBit(w, k) == IF Bit(w, k) = 1 THEN w - 2 ^ k ELSE w + 2 ^ k

InitFlags ==
    /\ pc = "word"
    /\ raw_data = <<>>
    /\ data = <<>>
    /\ eth_proto = None
    /\ proto = None
    /\ calls = <<>>
    /\ printed = <<>>
    /\ dump = <<>>
    /\ word \in 0..(2 ^ WordBits - 1)
    /\ flags = tcp_flags(0)

\* lines 37-46 on a segment carrying the word
Decode ==
    /\ pc = "word"
    /\ flags' = tcp_segment(SegmentWith(word)).flags
    /\ pc' = "decoded"
    /\ UNCHANGED <<raw_data, data, eth_proto, proto, calls, printed, dump, word>>

\* the same segment with one bit of the word inverted, decoded again
Flip ==
    /\ pc = "decoded"
    /\ \E k \in 0..(WordBits - 1) : word' = FlipBit(word, k)
    /\ flags' = tcp_segment(SegmentWith(word')).flags
    /\ UNCHANGED mainVars

NextFlags == Decode \/ Flip

SpecFlags == InitFlags /\ [][NextFlags]_vars

(* ============================ properties ============================== *)
Layers == {"ethernet_frame", "ipv4_packet", "icmp_packet", "tcp_segment", "udp_segment"}

TransportLayers == {"icmp_packet", "tcp_segment", "udp_segment"}

\* the minimum input length the specification gives each decoder
MinLen == [ethernet_frame |-> 14, ipv4_packet |-> 20, icmp_packet |-> 4,
           tcp_segment |-> 14, udp_segment |-> 8]

\* the offset at or after which the specification lets each layer's payload start
HeaderEnd == [ethernet_frame |-> 14, ipv4_packet |-> 20, icmp_packet |-> 4,
              tcp_segment |-> 20, udp_segment |-> 8]

CallsOf(fns) == {i \in 1..Len(calls) : calls[i].fn \in fns}

\* the frame's ether_type bytes (offsets 12-13) are 0x08 0x00
WireIsIPv4 == Len(raw_data) >= 14 /\ raw_data[13] = 8 /\ raw_data[14] = 0

\* the current iteration has raised out of main
Halted == pc = "terminated"

\* C1: one malformed frame never halts the capture loop: whatever frames
\* arrive, main stays in its receive loop (no frame ends the process), so
\* every later frame is still received and dissected.
C1_LoopNeverHalts == ~Halted

\* C2: truncation boundary: a decoder given one byte less than its layer's
\* minimum fails, the failure is that decoder's own (it is the last call of
\* the frame and nothing after it runs), and a decoder given exactly the
\* minimum succeeds.
C2_TruncationBoundary ==
    \A i \in 1..Len(calls) :
        LET c == calls[i] IN
        /\ Len(c.arg) = MinLen[c.fn] - 1 => (~c.ret.ok /\ i = Len(calls) /\ Halted)
        /\ Len(c.arg) = MinLen[c.fn] => c.ret.ok

C2_Witness ==
    /\ Halted
    /\ Len(calls) = 3
    /\ calls[3].fn = "icmp_packet"
    /\ Len(calls[3].arg) = 3
    /\ ~calls[3].ret.ok

\* C3: declared-length overrun is a failure: ipv4_packet fails when
\* 4 x (low nibble of byte 0) exceeds len(data), and tcp_segment fails when
\* 4 x (top 4 bits of the offset/flags word) exceeds len(data).
C3_OverrunFails ==
    \A i \in 1..Len(calls) :
        LET c == calls[i] IN
        /\ (c.fn = "ipv4_packet" /\ Len(c.arg) >= 1 /\ 4 * (c.arg[1] % 16) > Len(c.arg))
              => ~c.ret.ok
        /\ (c.fn = "tcp_segment" /\ Len(c.arg) >= 14
              /\ 4 * (U16(c.arg, 12) \div 4096) > Len(c.arg))
              => ~c.ret.ok

\* C4: every input ipv4_packet accepts gets header_length = 4 x (low nibble
\* of byte 0), at least 20 and at most len(data).
C4_HeaderLengthRange ==
    \A i \in 1..Len(calls) :
        LET c == calls[i] IN
        (c.fn = "ipv4_packet" /\ c.ret.ok) =>
            /\ c.ret.header_length = 4 * (c.arg[1] % 16)
            /\ c.ret.header_length >= 20
            /\ c.ret.header_length <= Len(c.arg)

\* C5: the EtherType gate: ipv4_packet is invoked for a frame if and only if
\* bytes 12-13 of the frame are 0x08 0x00; for any other ether_type the
\* iteration ends after Ethernet, with no IPv4 part and everything after
\* byte 14 left as the undissected residual.
C5_EtherTypeGate ==
    /\ CallsOf({"ipv4_packet"}) # {} => WireIsIPv4
    /\ (pc \in {"dispatch", "done", "terminated"} /\ WireIsIPv4)
          => CallsOf({"ipv4_packet"}) # {}
    /\ (pc = "done" /\ ~WireIsIPv4) =>
          /\ Len(calls) = 1
          /\ printed = <<"Ethernet Frame">>
          /\ dump = <<>>
          /\ data = SliceFrom(raw_data, 14)

C5_Witness ==
    /\ pc = "done"
    /\ raw_data[13] = 8 /\ raw_data[14] = 6
    /\ Len(calls) = 1
    /\ Len(data) = 40

\* the decoder the protocol byte selects
Selected(p) ==
    IF p = 1 THEN "icmp_packet" ELSE IF p = 6 THEN "tcp_segment"
    ELSE IF p = 17 THEN "udp_segment" ELSE "unrecognized"

\* C6: per frame ethernet_frame runs exactly once, ipv4_packet at most once
\* and only for an IPv4 ether_type, and after a successful ipv4_packet
\* exactly one transport outcome follows, chosen by the protocol byte alone:
\* 1 ICMP, 6 TCP, 17 UDP, given the IPv4 payload; anything else is
\* unrecognized and the IPv4 payload is dumped unmodified with no decoder run.
C6_Orchestration ==
    /\ Cardinality(CallsOf({"ethernet_frame"})) = (IF pc \in {"recv", "ethernet"} THEN 0 ELSE 1)
    /\ Cardinality(CallsOf({"ipv4_packet"})) <= 1
    /\ CallsOf({"ipv4_packet"}) # {} => (WireIsIPv4 /\ calls[1].ret.ok)
    /\ Cardinality(CallsOf(TransportLayers)) <= 1
    /\ CallsOf(TransportLayers) # {} => (Len(calls) = 3 /\ calls[2].ret.ok)
    /\ (pc \in {"done", "terminated"} /\ Len(calls) >= 2 /\ calls[2].ret.ok) =>
          LET ip == calls[2]
              sel == Selected(ip.arg[10])
          IN IF sel = "unrecognized"
             THEN /\ pc = "done"
                  /\ Len(calls) = 2
                  /\ printed = <<"Ethernet Frame", "IPv4 Packet", "Other Protocol">>
                  /\ dump = <<ip.ret.data>>
             ELSE /\ Len(calls) = 3
                  /\ calls[3].fn = sel
                  /\ calls[3].arg = ip.ret.data
                  /\ pc = "done" <=> calls[3].ret.ok

C6_Witness ==
    /\ pc = "done"
    /\ printed = <<"Ethernet Frame", "IPv4 Packet", "UDP Segment">>
    /\ Len(calls) = 3
    /\ calls[2].arg[10] = 17
    /\ calls[3].fn = "udp_segment"

(* ------------------------- C7, under SpecFlags ------------------------ *)
FlagNames == <<"FIN", "SYN", "RST", "PSH", "ACK", "URG">>

\* w & m != 0 for a single-bit mask m
HasMask(w, m) == (w % (2 * m)) >= m

\* each flag is the 0 / 1 test of its own mask 1, 2, 4, 8, 16, 32
MaskTests(w, fl) ==
    \A k \in 0..5 : fl[FlagNames[k + 1]] = (IF HasMask(w, 2 ^ k) THEN 1 ELSE 0)

Changed(f, g) == {k \in 0..5 : f[FlagNames[k + 1]] # g[FlagNames[k + 1]]}

\* C7 as stated: every decoded flag equals its own mask test, and inverting
\* any one bit of the 16-bit word changes exactly one flag.
C7_AnyBitFlipChangesOneFlag ==
    [][ /\ pc' = "decoded" => MaskTests(word', flags')
        /\ (pc = "decoded" /\ pc' = "decoded") => Cardinality(Changed(flags, flags')) = 1 ]_vars

\* C7 amended: every decoded flag equals its own mask test; inverting one of
\* the six flag bits (0..5) changes exactly the flag of that bit, and
\* inverting any of bits 6..15 changes no flag.
C7_FlagBitsIndependent ==
    [][ /\ pc' = "decoded" => MaskTests(word', flags')
        /\ (pc = "decoded" /\ pc' = "decoded") =>
              \A k \in 0..(WordBits - 1) :
                  word' = FlipBit(word, k) =>
                      Changed(flags, flags') = (IF k <= 5 THEN {k} ELSE {}) ]_vars

C7_Witness ==
    /\ pc = "decoded"
    /\ word = 20480 + 2
    /\ flags = [URG |-> 0, ACK |-> 0, PSH |-> 0, RST |-> 0, SYN |-> 1, FIN |-> 0]

(* ---------------------------------------------------------------------- *)
\* C8: for every input of at least 14 bytes ethernet_frame succeeds and
\* returns the input from offset 14 on, of length len(input) - 14.
C8_EthernetConsumes14 ==
    \A i \in CallsOf({"ethernet_frame"}) :
        LET c == calls[i] IN
        Len(c.arg) >= 14 =>
            /\ c.ret.ok
            /\ c.ret.data = SliceFrom(c.arg, 14)
            /\ Len(c.ret.data) = Len(c.arg) - 14

C8_Witness ==
    /\ pc = "gate"
    /\ Len(raw_data) = MaxFrameLen
    /\ Len(data) = MaxFrameLen - 14
    /\ data[1] \in VersionIHLs

\* C9: for every input of at least 8 bytes udp_segment returns the declared
\* length field (bytes 4-5 of the UDP header) as read, and as payload exactly
\* the bytes after offset 8, whatever that field's value.
C9_UdpLengthNotEnforced ==
    \A i \in CallsOf({"udp_segment"}) :
        LET c == calls[i] IN
        Len(c.arg) >= 8 =>
            /\ c.ret.ok
            /\ c.ret.size = U16(c.arg, 4)
            /\ c.ret.data = SliceFrom(c.arg, 8)

\* C10: strictly forward consumption: the payload a layer forwards is a
\* suffix of its input starting at or after the end of its header (14
\* Ethernet, 20 IPv4 and TCP, 4 ICMP, 8 UDP), or empty when the input ends
\* before that.
C10_ForwardConsumption ==
    \A i \in 1..Len(calls) :
        LET c == calls[i] IN
        c.ret.ok =>
            \/ c.ret.data = <<>>
            \/ \E k \in HeaderEnd[c.fn]..Len(c.arg) : c.ret.data = SliceFrom(c.arg, k)
====
